---------------------------- MODULE Spec2Model ----------------------------
(***************************************************************************)
(* HDTF downloader (download.py): the annotation join                      *)
(* (construct_download_queue) and the worker pool that downloads each      *)
(* video and cuts its clips (download_hdtf, download_and_process_video).   *)
(* Text is modelled as TLA+ strings, so that splitting, stripping,         *)
(* formatting and integer parsing are computed and not assumed.            *)
(***************************************************************************)
EXTENDS Integers, Sequences, FiniteSets, TLC

VARIABLES
    files,           \* the annotation files of source_dir: path -> lines
    num_workers,     \* the --num_workers argument
    mainpc,          \* position of download_hdtf
    download_queue,  \* the list construct_download_queue returned
    joinError,       \* the exception construct_download_queue raised, if any
    nextTask,        \* index of the next task the pool hands out
    workerJob,       \* worker -> index of the job it runs (0: idle)
    jobpc,           \* job -> position of download_and_process_video
    clipIdx,         \* job -> clip_idx of the extraction loop
    outqueue,        \* results the workers returned, not yet seen by main
    completed,       \* tqdm's count of results the loop of main received
    acquireCalls,    \* job -> number of download_video calls
    extractCalls,    \* job -> position -> number of cut_and_crop_video calls
    dlResult,        \* job -> outcome of its download_video call
    exResult,        \* job -> position -> outcome of cut_and_crop_video
    writes           \* the (path, job) pairs an external tool was told to write

vars == <<files, num_workers, mainpc, download_queue, joinError, nextTask,
          workerJob, jobpc, clipIdx, outqueue, completed, acquireCalls,
          extractCalls, dlResult, exResult, writes>>

---------------------------------------------------------------------------
(* Bounds of the model. *)

MaxVideos == 2      \* annotated videos in one source directory
MaxWorkers == 2     \* largest --num_workers tried

---------------------------------------------------------------------------
(* Python text primitives. *)

Char(s, i) == SubSeq(s, i, i)

IsSpace(c) == c \in {" ", "\t"}

RECURSIVE LStrip(_)
LStrip(s) ==
    IF Len(s) > 0 /\ IsSpace(Char(s, 1)) THEN LStrip(SubSeq(s, 2, Len(s))) ELSE s

RECURSIVE RStrip(_)
RStrip(s) ==
    IF Len(s) > 0 /\ IsSpace(Char(s, Len(s)))
    THEN RStrip(SubSeq(s, 1, Len(s) - 1)) ELSE s

\* str.strip()
Strip(s) == RStrip(LStrip(s))

\* position of the first sep at or after i, 0 when there is none
RECURSIVE Find(_, _, _)
Find(s, sep, i) ==
    IF i > Len(s) THEN 0
    ELSE IF Char(s, i) = sep THEN i
    ELSE Find(s, sep, i + 1)

\* str.split(sep) for a one-character sep: always at least one piece
RECURSIVE Split(_, _)
Split(s, sep) ==
    LET p == Find(s, sep, 1) IN
    IF p = 0 THEN <<s>>
    ELSE <<SubSeq(s, 1, p - 1)>> \o Split(SubSeq(s, p + 1, Len(s)), sep)

\* str.split(sep, 1)
SplitOnce(s, sep) ==
    LET p == Find(s, sep, 1) IN
    IF p = 0 THEN <<s>>
    ELSE <<SubSeq(s, 1, p - 1), SubSeq(s, p + 1, Len(s))>>

Digits == <<"0", "1", "2", "3", "4", "5", "6", "7", "8", "9">>

IsDigit(c) == \E d \in 1..10 : Digits[d] = c

DigitVal(c) == (CHOOSE d \in 1..10 : Digits[d] = c) - 1

AllDigits(s) == Len(s) > 0 /\ \A i \in 1..Len(s) : IsDigit(Char(s, i))

RECURSIVE DigitsVal(_, _)
DigitsVal(s, acc) ==
    IF Len(s) = 0 THEN acc
    ELSE DigitsVal(SubSeq(s, 2, Len(s)), 10 * acc + DigitVal(Char(s, 1)))

\* int(s) of a stripped token: an optional sign and decimal digits, else
\* ValueError
IntOk(s) ==
    IF Len(s) > 0 /\ Char(s, 1) \in {"+", "-"}
    THEN AllDigits(SubSeq(s, 2, Len(s)))
    ELSE AllDigits(s)

IntVal(s) ==
    IF Char(s, 1) = "-" THEN 0 - DigitsVal(SubSeq(s, 2, Len(s)), 0)
    ELSE IF Char(s, 1) = "+" THEN DigitsVal(SubSeq(s, 2, Len(s)), 0)
    ELSE DigitsVal(s, 0)

\* str(n) of an integer
Str(n) == ToString(n)

\* f'{n:03d}' for n >= 0: zero-padded to a width of at least 3
RECURSIVE ZeroPad(_, _)
ZeroPad(s, width) == IF Len(s) >= width THEN s ELSE ZeroPad("0" \o s, width)

Format03d(n) == ZeroPad(Str(n), 3)

\* os.path.join of relative components
PathJoin(a, b) == a \o "/" \o b

---------------------------------------------------------------------------
(* Ordered dictionaries (Python dict): a sequence of <<key, value>> pairs  *)
(* with distinct keys, in insertion order.                                 *)

DictHas(d, k) == \E i \in 1..Len(d) : d[i][1] = k

DictGet(d, k) == d[CHOOSE i \in 1..Len(d) : d[i][1] = k][2]

\* d[k] = v: a key already present keeps its place and takes the new value
DictSet(d, k, v) ==
    IF DictHas(d, k)
    THEN [i \in 1..Len(d) |-> IF d[i][1] = k THEN <<k, v>> ELSE d[i]]
    ELSE Append(d, <<k, v>>)

RECURSIVE DictFromPairs(_, _)
DictFromPairs(pairs, acc) ==
    IF Len(pairs) = 0 THEN acc
    ELSE DictFromPairs(Tail(pairs), DictSet(acc, pairs[1][1], pairs[1][2]))

---------------------------------------------------------------------------
(* Program constants. *)

\* mutant: the subsets are declared in another order
subsets_Reordered == <<"WDA", "RD", "WRA">>

subsets == <<"RD", "WDA", "WRA">>

source_dir == "HDTF_dataset"

output_dir == "out"

---------------------------------------------------------------------------
(* read_file_as_space_separated_data *)

SplitLine(l) ==
    LET parts == Split(Strip(l), " ")
    IN  [i \in 1..Len(parts) |-> Strip(parts[i])]

read_file_as_space_separated_data(lines) ==
    LET ls == [i \in 1..Len(lines) |-> SplitLine(lines[i])]
        pairs == [i \in 1..Len(ls) |-> <<ls[i][1], Tail(ls[i])>>]
    IN  DictFromPairs(pairs, <<>>)

---------------------------------------------------------------------------
(* urllib.parse *)

\* parse.urlparse(url).query: the fragment is cut off first, then the query
\* is what follows the first "?"
UrlQuery(url) ==
    LET nofrag == SplitOnce(url, "#")[1]
        parts == SplitOnce(nofrag, "?")
    IN  IF Len(parts) = 2 THEN parts[2] ELSE ""

\* parse.parse_qs(query): pairs separated by "&"; a pair without "=" or
\* with a blank value is dropped; the values of a name are listed in order
RECURSIVE QsPairs(_, _)
QsPairs(fields, acc) ==
    IF Len(fields) = 0 THEN acc
    ELSE LET nv == SplitOnce(fields[1], "=")
             keep == Len(nv) = 2 /\ Len(nv[2]) > 0
             old == IF keep /\ DictHas(acc, nv[1]) THEN DictGet(acc, nv[1])
                    ELSE <<>>
         IN  QsPairs(Tail(fields),
                     IF keep THEN DictSet(acc, nv[1], Append(old, nv[2]))
                     ELSE acc)

parse_qs(query) == QsPairs(Split(query, "&"), <<>>)

---------------------------------------------------------------------------
(* construct_download_queue *)

AnnotationPath(subset, kind) == PathJoin(source_dir, subset \o "_" \o kind \o ".txt")

\* f'{video_name}.mp4'
VideoKey(video_name) == video_name \o ".mp4"

\* mutant: the crop keys are numbered from 1
ClipKey_FromOne(video_name, clip_idx) ==
    video_name \o "_" \o Str(clip_idx + 1) \o ".mp4"

\* f'{video_name}_{clip_idx}.mp4', clip_idx counted from 0
ClipKey(video_name, clip_idx) == video_name \o "_" \o Str(clip_idx) \o ".mp4"

\* mutant: the interval mapping is asked for the bare video name
HasIntervals_NoSuffix(intervals, video_name) == DictHas(intervals, video_name)

\* line 55: the video has an entry in the interval mapping
HasIntervals(intervals, video_name) == DictHas(intervals, VideoKey(video_name))

\* mutant: the number of resolution fields is not looked at
ResolutionUsable_AnyCount(resolutions, video_name) ==
    DictHas(resolutions, VideoKey(video_name))

\* line 58: the video has a resolution entry of at most one field
ResolutionUsable(resolutions, video_name) ==
    /\ DictHas(resolutions, VideoKey(video_name))
    /\ ~(Len(DictGet(resolutions, VideoKey(video_name))) > 1)

\* line 61: [x.split('-') for x in intervals[key]]
AllClipsIntervals(intervals, video_name) ==
    LET raw == DictGet(intervals, VideoKey(video_name))
    IN  [i \in 1..Len(raw) |-> Split(raw[i], "-")]

\* lines 65-70: the 0-based indices of the intervals that have a crop entry,
\* in increasing order (what the loop keeps)
RECURSIVE KeptIndices(_, _, _, _)
KeptIndices(crops, video_name, n, clip_idx) ==
    IF clip_idx >= n THEN <<>>
    ELSE (IF DictHas(crops, ClipKey(video_name, clip_idx))
          THEN <<clip_idx>> ELSE <<>>)
         \o KeptIndices(crops, video_name, n, clip_idx + 1)

\* mutant: the interval is appended before the crop is looked up, so
\* every interval is kept
KeptIntervals_All(all_clips_intervals, kept) == all_clips_intervals

\* line 70: the intervals appended, those of the kept indices
KeptIntervals(all_clips_intervals, kept) ==
    [k \in 1..Len(kept) |-> all_clips_intervals[kept[k] + 1]]

\* line 69: the crop entries appended, those of the kept indices
KeptCrops(crops, video_name, kept) ==
    [k \in 1..Len(kept) |-> DictGet(crops, ClipKey(video_name, kept[k]))]

\* mutant: a video without clips is not dropped
NoClips_Never(clips_crops) == FALSE

\* line 74: len(clips_crops) == 0
NoClips(clips_crops) == Len(clips_crops) = 0

\* line 72: list(map(int, cs)) succeeds for every kept crop
CropsAreInts(raw_crops) ==
    \A i \in 1..Len(raw_crops) : \A f \in 1..Len(raw_crops[i]) :
        IntOk(raw_crops[i][f])

ToInts(cs) == [f \in 1..Len(cs) |-> IntVal(cs[f])]

\* mutant: the job name lacks the subset prefix
JobName_NoSubset(subset, video_name) == video_name

\* line 78: the name of a job
JobName(subset, video_name) == subset \o "_" \o video_name

Raise(exc, line, subset, video_name) ==
    [kind |-> "error", exc |-> exc, line |-> line,
     subset |-> subset, video |-> video_name]

Skip == [kind |-> "skip"]

\* One iteration of the loop of line 54 for the item (video_name, fields)
\* of video_urls: a job, a skip (continue), or the exception raised.
ProcessVideo(subset, video_name, fields, crops, intervals, resolutions) ==
    IF Len(fields) # 1
    THEN Raise("ValueError", 54, subset, video_name)
    ELSE IF ~HasIntervals(intervals, video_name) THEN Skip
    ELSE IF ~ResolutionUsable(resolutions, video_name) THEN Skip
    ELSE
    LET video_url == fields[1]
        all_clips_intervals == AllClipsIntervals(intervals, video_name)
        kept == KeptIndices(crops, video_name, Len(all_clips_intervals), 0)
        raw_crops == KeptCrops(crops, video_name, kept)
        clips_intervals == KeptIntervals(all_clips_intervals, kept)
        qs == parse_qs(UrlQuery(video_url))
        resolution == DictGet(resolutions, VideoKey(video_name))
    IN  IF ~CropsAreInts(raw_crops)
        THEN Raise("ValueError", 72, subset, video_name)
        ELSE IF NoClips(raw_crops) THEN Skip
        ELSE IF ~DictHas(qs, "v")
        THEN Raise("KeyError", 79, subset, video_name)
        ELSE IF Len(resolution) = 0
        THEN Raise("IndexError", 83, subset, video_name)
        ELSE [kind |-> "job",
              job |-> [name |-> JobName(subset, video_name),
                       id |-> DictGet(qs, "v")[1],
                       intervals |-> clips_intervals,
                       crops |-> [k \in 1..Len(raw_crops) |->
                                     ToInts(raw_crops[k])],
                       output_dir |-> output_dir,
                       resolution |-> resolution[1]]]

NoError == [kind |-> "none"]

\* The loop of line 54 over video_urls.items(), from item i on.
RECURSIVE JoinVideos(_, _, _, _, _, _, _)
JoinVideos(subset, video_urls, i, crops, intervals, resolutions, queue) ==
    IF i > Len(video_urls) THEN [queue |-> queue, error |-> NoError]
    ELSE LET r == ProcessVideo(subset, video_urls[i][1], video_urls[i][2],
                               crops, intervals, resolutions)
         IN  IF r.kind = "error" THEN [queue |-> queue, error |-> r]
             ELSE JoinVideos(subset, video_urls, i + 1, crops, intervals,
                             resolutions,
                             IF r.kind = "job" THEN Append(queue, r.job)
                             ELSE queue)

\* The loop of line 48 over subsets, from subset s on.
RECURSIVE JoinSubsets(_, _, _)
JoinSubsets(fs, s, queue) ==
    IF s > Len(subsets) THEN [queue |-> queue, error |-> NoError]
    ELSE LET subset == subsets[s]
             video_urls == read_file_as_space_separated_data(
                               fs[AnnotationPath(subset, "video_url")])
             crops == read_file_as_space_separated_data(
                               fs[AnnotationPath(subset, "crop_wh")])
             intervals == read_file_as_space_separated_data(
                               fs[AnnotationPath(subset, "annotion_time")])
             resolutions == read_file_as_space_separated_data(
                               fs[AnnotationPath(subset, "resolution")])
             r == JoinVideos(subset, video_urls, 1, crops, intervals,
                             resolutions, queue)
         IN  IF r.error.kind = "error" THEN r
             ELSE JoinSubsets(fs, s + 1, r.queue)

construct_download_queue(fs) == JoinSubsets(fs, 1, <<>>)

---------------------------------------------------------------------------
(* The source directories tried. An annotated video is described by the    *)
(* text that follows the key on each of its lines (no line at all where    *)
(* the sequence is empty); the files are assembled from these lines.       *)

GoodUrl == " https://y.t/watch?v=k1"

UrlTexts ==
    { GoodUrl,
      " https://y.t/watch?t=9&v=&v=k2&v=k3#a?v=k4",   \* v given three times
      " https://y.t/watch?t=9",                       \* no v parameter
      "",                                             \* no value field
      " https://y.t/watch?v=k1 x" }                   \* two value fields

TwoIntervals == <<" 00:00-00:05 00:10-00:15">>

IntervalTexts ==
    { <<>>,                        \* no line for the video
      TwoIntervals,
      <<" 00:05 00:10-00:15">>,    \* the first interval has no separator
      <<" 00:00-00:05-00:09">>,    \* one interval with two separators
      <<"">> }                     \* a line that lists no interval

OneResolution == <<" 720">>

ResolutionTexts ==
    { <<>>,                  \* no line for the video
      OneResolution,
      <<" 720 1080">>,       \* two fields
      <<"">> }               \* a line without a field

BothCrops == <<"_0.mp4 10 200 0 100", "_1.mp4 5 60 7 80">>

OnlySecondCrop == <<"_1.mp4 5 60 7 80">>

CropTexts ==
    { <<>>,                                  \* no crop at all
      <<"_0.mp4 10 200 0 100">>,             \* clip 0 only
      OnlySecondCrop,                        \* clip 1 only
      BothCrops,
      <<"_0.mp4 10 200 0", "_1.mp4 5 60 7 80">>,     \* three fields
      <<"_0.mp4 -1 0 0 100">>,               \* x < 0 and width 0
      <<"_0.mp4 10 200 0 100", "_1.mp4 5 x 7 80">> } \* not a number

Annotated(subset, video, url, times, res, crops) ==
    [subset |-> subset, video |-> video, url |-> url, times |-> times,
     res |-> res, crops |-> crops]

\* every combination, for a directory that annotates one video
AllVideos ==
    { Annotated(s, v, u, t, r, c) :
        s \in {subsets[i] : i \in 1..Len(subsets)}, v \in {"a", "b"},
        u \in UrlTexts, t \in IntervalTexts, r \in ResolutionTexts,
        c \in CropTexts }

\* the videos a directory of several videos is made of: a complete video
\* at each of three places, and one place for a video with a defect
PoolPlaces == { <<"RD", "a">>, <<"RD", "b">>, <<"WDA", "a">> }

PoolVideos ==
    { Annotated(p[1], p[2], GoodUrl, TwoIntervals, OneResolution, BothCrops) :
        p \in PoolPlaces }
    \cup
    { Annotated("RD", "b", v[1], v[2], OneResolution, v[3]) :
        v \in { <<GoodUrl, TwoIntervals, OnlySecondCrop>>,
                <<GoodUrl, <<" 00:05 00:10-00:15">>, BothCrops>>,
                <<GoodUrl, TwoIntervals,
                  <<"_0.mp4 10 200 0 100", "_1.mp4 5 60 7">> >>,
                <<"", TwoIntervals, BothCrops>> } }

JoinVideosTried ==
    PoolVideos \cup
    { Annotated(p[1], p[2], GoodUrl, v[1], v[2], v[3]) :
        p \in PoolPlaces,
        v \in { <<TwoIntervals, <<>>, BothCrops>>,
                <<TwoIntervals, <<" 720 1080">>, BothCrops>>,
                <<<<>>, OneResolution, BothCrops>>,
                <<TwoIntervals, OneResolution, <<>> >> } }

SeqsUpTo(S, n) == UNION { [1..m -> S] : m \in 0..n }

RECURSIVE LinesOf(_, _, _)
LinesOf(videos, subset, kind) ==
    IF Len(videos) = 0 THEN <<>>
    ELSE LET a == videos[1]
             mine == IF a.subset # subset THEN <<>>
                     ELSE IF kind = "video_url" THEN <<a.video \o a.url>>
                     ELSE IF kind = "crop_wh"
                     THEN [i \in 1..Len(a.crops) |-> a.video \o a.crops[i]]
                     ELSE IF kind = "annotion_time"
                     THEN [i \in 1..Len(a.times) |->
                              a.video \o ".mp4" \o a.times[i]]
                     ELSE [i \in 1..Len(a.res) |->
                              a.video \o ".mp4" \o a.res[i]]
         IN  mine \o LinesOf(Tail(videos), subset, kind)

Kinds == {"video_url", "crop_wh", "annotion_time", "resolution"}

SourceDir(videos) ==
    LET places == {<<subsets[i], k>> : i \in 1..Len(subsets), k \in Kinds}
    IN  [path \in {AnnotationPath(pl[1], pl[2]) : pl \in places} |->
            LET pl == CHOOSE q \in places : AnnotationPath(q[1], q[2]) = path
            IN  LinesOf(videos, pl[1], pl[2])]

PoolDirs == { SourceDir(vs) : vs \in SeqsUpTo(PoolVideos, MaxVideos) }

JoinDirs ==
    { SourceDir(<<a>>) : a \in AllVideos }
    \cup { SourceDir(vs) : vs \in SeqsUpTo(JoinVideosTried, MaxVideos) }

---------------------------------------------------------------------------
(* download_and_process_video *)

\* line 92
RawDownloadPath(video_data) ==
    PathJoin(PathJoin(output_dir, "_videos_raw"), video_data.name \o ".mp4")

\* lines 100-101, clip_idx counted from 0
ClipPath(video_data, clip_idx) ==
    PathJoin(output_dir,
             video_data.name \o "_" \o Format03d(clip_idx) \o ".mp4")

\* subprocess.call(list) == 0: the exit code of yt-dlp is 0 or is not
DownloadOutcomes == {"ok", "fail"}

\* subprocess.call(str, shell=True) == 0: the exit code of ffmpeg
ExtractOutcomes == {"ok", "fail"}

\* mutant: the result of the download is not looked at
EntersClipLoop_Always(download_result) == TRUE

\* line 95: the clips are processed only when download_result is true
EntersClipLoop(download_result) == download_result = "ok"

\* line 99: start, end = video_data['intervals'][clip_idx]
IntervalUnpacks(interval) == Len(interval) = 2

\* line 142: x, out_w, y, out_h = crop
CropUnpacks(crop) == Len(crop) = 4

\* mutant: the loop starts at the second clip
FirstClipIdx_Second == 0 + 1

\* line 98: range(len(intervals)) starts at 0 and steps by 1
FirstClipIdx == 0

NextClipIdx(clip_idx) == clip_idx + 1

Jobs == 1..Len(download_queue)

Workers == 1..num_workers

PoolAlive == mainpc \in {"iterating", "raised"}

\* The worker hands the result of the task to the result queue and is idle.
TaskEnds(w, j, pc, result) ==
    /\ jobpc' = [jobpc EXCEPT ![j] = pc]
    /\ outqueue' = outqueue \cup {<<j, result>>}
    /\ workerJob' = [workerJob EXCEPT ![w] = 0]

\* The loop of line 98 arrives at position clip_idx (counted from 0) in job
\* j of worker w, with ex the extraction outcomes so far: the task returns,
\* raises, or blocks in the next ffmpeg call.
LoopAt(w, j, clip_idx, ex) ==
    LET video_data == download_queue[j] IN
    IF clip_idx >= Len(video_data.intervals)
    THEN /\ TaskEnds(w, j, "returned", "value")
         /\ exResult' = ex
         /\ UNCHANGED <<clipIdx, extractCalls, writes>>
    ELSE IF ~IntervalUnpacks(video_data.intervals[clip_idx + 1])
    THEN /\ TaskEnds(w, j, "raised", "exception")
         /\ exResult' = ex
         /\ UNCHANGED <<clipIdx, extractCalls, writes>>
    ELSE IF ~CropUnpacks(video_data.crops[clip_idx + 1])
    THEN /\ TaskEnds(w, j, "raised", "exception")
         /\ extractCalls' =
                [extractCalls EXCEPT ![j][clip_idx + 1] = @ + 1]
         /\ exResult' = [ex EXCEPT ![j][clip_idx + 1] = "raised"]
         /\ UNCHANGED <<clipIdx, writes>>
    ELSE /\ jobpc' = [jobpc EXCEPT ![j] = "extract"]
         /\ clipIdx' = [clipIdx EXCEPT ![j] = clip_idx]
         /\ extractCalls' =
                [extractCalls EXCEPT ![j][clip_idx + 1] = @ + 1]
         /\ exResult' = [ex EXCEPT ![j][clip_idx + 1] = "running"]
         /\ writes' = writes \cup {<<ClipPath(video_data, clip_idx), j>>}
         /\ UNCHANGED <<outqueue, workerJob>>

---------------------------------------------------------------------------
(* The actions. *)

NotStarted ==
    /\ mainpc = "start"
    /\ download_queue = <<>>
    /\ joinError = NoError
    /\ nextTask = 1
    /\ workerJob = <<>>
    /\ jobpc = <<>>
    /\ clipIdx = <<>>
    /\ outqueue = {}
    /\ completed = 0
    /\ acquireCalls = <<>>
    /\ extractCalls = <<>>
    /\ dlResult = <<>>
    /\ exResult = <<>>
    /\ writes = {}

Init ==
    /\ files \in PoolDirs
    /\ num_workers \in 1..MaxWorkers
    /\ NotStarted

InitJoin ==
    /\ files \in JoinDirs
    /\ num_workers = 1
    /\ NotStarted

\* download_hdtf, lines 34-37: the queue is built and the pool created
Construct ==
    /\ mainpc = "start"
    /\ LET r == construct_download_queue(files) IN
       /\ r.error.kind = "none"
       /\ download_queue' = r.queue
       /\ mainpc' = "iterating"
       /\ workerJob' = [w \in Workers |-> 0]
       /\ jobpc' = [j \in 1..Len(r.queue) |-> "queued"]
       /\ clipIdx' = [j \in 1..Len(r.queue) |-> 0]
       /\ acquireCalls' = [j \in 1..Len(r.queue) |-> 0]
       /\ dlResult' = [j \in 1..Len(r.queue) |-> "none"]
       /\ extractCalls' = [j \in 1..Len(r.queue) |->
                             [k \in 1..Len(r.queue[j].intervals) |-> 0]]
       /\ exResult' = [j \in 1..Len(r.queue) |->
                          [k \in 1..Len(r.queue[j].intervals) |-> "none"]]
    /\ UNCHANGED <<files, num_workers, joinError, nextTask, outqueue,
                   completed, writes>>

\* construct_download_queue raises: download_hdtf ends with the exception
ConstructRaises ==
    /\ mainpc = "start"
    /\ LET r == construct_download_queue(files) IN
       /\ r.error.kind = "error"
       /\ joinError' = r.error
       /\ mainpc' = "fatal"
    /\ UNCHANGED <<files, num_workers, download_queue, nextTask, workerJob,
                   jobpc, clipIdx, outqueue, completed, acquireCalls,
                   extractCalls, dlResult, exResult, writes>>

\* mutant: a worker takes a task while it runs another
Idle_Always(w) == TRUE

\* a pool worker runs one task at a time
Idle(w) == workerJob[w] = 0

\* An idle worker takes the next task and calls download_video (line 93).
TakeTask(w) ==
    /\ PoolAlive
    /\ Idle(w)
    /\ nextTask \in Jobs
    /\ LET j == nextTask IN
       /\ workerJob' = [workerJob EXCEPT ![w] = j]
       /\ nextTask' = nextTask + 1
       /\ jobpc' = [jobpc EXCEPT ![j] = "download"]
       /\ acquireCalls' = [acquireCalls EXCEPT ![j] = @ + 1]
       /\ dlResult' = [dlResult EXCEPT ![j] = "running"]
       /\ writes' = writes \cup {<<RawDownloadPath(download_queue[j]), j>>}
    /\ UNCHANGED <<files, num_workers, mainpc, download_queue, joinError,
                   clipIdx, outqueue, completed, extractCalls, exResult>>

\* download_video returns (lines 93-98).
DownloadReturns(w, outcome) ==
    /\ PoolAlive
    /\ workerJob[w] # 0
    /\ jobpc[workerJob[w]] = "download"
    /\ LET j == workerJob[w] IN
       /\ dlResult' = [dlResult EXCEPT ![j] = outcome]
       /\ IF ~EntersClipLoop(outcome)
          THEN /\ TaskEnds(w, j, "returned", "value")
               /\ UNCHANGED <<clipIdx, extractCalls, exResult, writes>>
          ELSE LoopAt(w, j, FirstClipIdx, exResult)
    /\ UNCHANGED <<files, num_workers, mainpc, download_queue, joinError,
                   nextTask, completed, acquireCalls>>

\* cut_and_crop_video returns (lines 102-105) and the loop goes on.
ExtractReturns(w, outcome) ==
    /\ PoolAlive
    /\ workerJob[w] # 0
    /\ jobpc[workerJob[w]] = "extract"
    /\ LET j == workerJob[w] IN
       LoopAt(w, j, NextClipIdx(clipIdx[j]),
              [exResult EXCEPT ![j][clipIdx[j] + 1] = outcome])
    /\ UNCHANGED <<files, num_workers, mainpc, download_queue, joinError,
                   nextTask, completed, acquireCalls, dlResult>>

\* The loop of line 39 receives a result: a value is counted, an exception
\* is raised again in download_hdtf.
ReceiveResult ==
    /\ mainpc = "iterating"
    /\ \E r \in outqueue :
        /\ outqueue' = outqueue \ {r}
        /\ IF r[2] = "value"
           THEN /\ completed' = completed + 1
                /\ mainpc' = mainpc
           ELSE /\ mainpc' = "raised"
                /\ completed' = completed
    /\ UNCHANGED <<files, num_workers, download_queue, joinError, nextTask,
                   workerJob, jobpc, clipIdx, acquireCalls, extractCalls,
                   dlResult, exResult, writes>>

\* Every task has given its result: the loop of line 39 ends (lines 42-43).
Finish ==
    /\ mainpc = "iterating"
    /\ completed = Len(download_queue)
    /\ mainpc' = "finished"
    /\ UNCHANGED <<files, num_workers, download_queue, joinError, nextTask,
                   workerJob, jobpc, clipIdx, outqueue, completed,
                   acquireCalls, extractCalls, dlResult, exResult, writes>>

\* The uncaught exception ends the process; the pool and its workers are
\* terminated with it.
Exit ==
    /\ mainpc = "raised"
    /\ mainpc' = "exited"
    /\ UNCHANGED <<files, num_workers, download_queue, joinError, nextTask,
                   workerJob, jobpc, clipIdx, outqueue, completed,
                   acquireCalls, extractCalls, dlResult, exResult, writes>>

Next ==
    \/ Construct
    \/ ConstructRaises
    \/ \E w \in Workers : TakeTask(w)
    \/ \E w \in Workers : \E o \in DownloadOutcomes : DownloadReturns(w, o)
    \/ \E w \in Workers : \E o \in ExtractOutcomes : ExtractReturns(w, o)
    \/ ReceiveResult
    \/ Finish
    \/ Exit

Spec == Init /\ [][Next]_vars

NextJoin == Construct \/ ConstructRaises

SpecJoin == InitJoin /\ [][NextJoin]_vars

---------------------------------------------------------------------------
(* What the claims speak of. *)

SubsetNames == {subsets[i] : i \in 1..Len(subsets)}

UrlMap(subset) ==
    read_file_as_space_separated_data(files[AnnotationPath(subset, "video_url")])

CropMap(subset) ==
    read_file_as_space_separated_data(files[AnnotationPath(subset, "crop_wh")])

IntervalMap(subset) ==
    read_file_as_space_separated_data(
        files[AnnotationPath(subset, "annotion_time")])

ResolutionMap(subset) ==
    read_file_as_space_separated_data(
        files[AnnotationPath(subset, "resolution")])

\* the video names of the URL mapping of a subset
VideosOf(subset) == {UrlMap(subset)[i][1] : i \in 1..Len(UrlMap(subset))}

\* the interval indices (from 0) of a video that have a crop entry
CropIndices(subset, video) ==
    {i \in 0..(Len(DictGet(IntervalMap(subset), VideoKey(video))) - 1) :
        DictHas(CropMap(subset), video \o "_" \o Str(i) \o ".mp4")}

\* the k-th smallest element of a set of numbers
NthOf(S, k) == CHOOSE i \in S : Cardinality({i2 \in S : i2 < i}) = k - 1

BadResolution(subset, video) ==
    \/ ~DictHas(ResolutionMap(subset), VideoKey(video))
    \/ Len(DictGet(ResolutionMap(subset), VideoKey(video))) > 1

YieldsJob(subset, video) ==
    /\ DictHas(IntervalMap(subset), VideoKey(video))
    /\ DictHas(ResolutionMap(subset), VideoKey(video))
    /\ Len(DictGet(ResolutionMap(subset), VideoKey(video))) = 1
    /\ CropIndices(subset, video) # {}

ExpectedJob(subset, video) ==
    LET idx == CropIndices(subset, video)
        raw == DictGet(IntervalMap(subset), VideoKey(video))
        url == DictGet(UrlMap(subset), video)[1]
    IN  [name |-> subset \o "_" \o video,
         id |-> DictGet(parse_qs(UrlQuery(url)), "v")[1],
         intervals |-> [k \in 1..Cardinality(idx) |->
                           Split(raw[NthOf(idx, k) + 1], "-")],
         crops |-> [k \in 1..Cardinality(idx) |->
                       ToInts(DictGet(CropMap(subset),
                           video \o "_" \o Str(NthOf(idx, k)) \o ".mp4"))],
         output_dir |-> output_dir,
         resolution |-> DictGet(ResolutionMap(subset), VideoKey(video))[1]]

Positions(j) == 1..Len(download_queue[j].intervals)

Returned(r) == r \in {"ok", "fail"}

\* download_hdtf is over: it returned, or the process ended on an exception
RunOver == mainpc \in {"finished", "exited"}

---------------------------------------------------------------------------
(* The claims. *)

\* C1: a job whose download_video returned failure has no call of
\* cut_and_crop_video, for none of its clips, in any state of any run.
C1_NoExtractionAfterFailedDownload ==
    \A j \in Jobs :
        dlResult[j] = "fail" =>
            /\ \A k \in Positions(j) :
                   extractCalls[j][k] = 0 /\ exResult[j][k] = "none"
            /\ \A k \in Positions(j) :
                   <<ClipPath(download_queue[j], k - 1), j>> \notin writes

\* a job with clips whose download failed has returned, while another job
\* has had a clip extracted
C1_Witness ==
    \E j \in Jobs : \E j2 \in Jobs :
        /\ dlResult[j] = "fail" /\ jobpc[j] = "returned"
        /\ Positions(j) # {}
        /\ j2 # j /\ \E k \in Positions(j2) : extractCalls[j2][k] > 0

\* C2: jobs are independent: for distinct jobs A and B, when the run is
\* over it has ended normally (nothing of A was raised in download_hdtf),
\* B has had its acquisition attempted and, where that succeeded and B
\* itself did not fail, every clip of B attempted.
C2_JobsIndependent ==
    \A a \in Jobs : \A b \in Jobs :
        (a # b /\ RunOver) =>
            /\ mainpc = "finished"
            /\ acquireCalls[b] >= 1
            /\ (dlResult[b] = "ok" /\ jobpc[b] # "raised") =>
                   \A k \in Positions(b) : extractCalls[b][k] >= 1

\* C3: when the run is over, every clip of a job whose acquisition succeeded
\* has been passed to cut_and_crop_video, and an extraction that failed at
\* one position is followed by the attempt of the next position.
C3_ClipsIndependent ==
    RunOver =>
        \A j \in Jobs :
            /\ dlResult[j] = "ok" =>
                   \A k \in Positions(j) : extractCalls[j][k] >= 1
            /\ \A k \in Positions(j) :
                   (exResult[j][k] \in {"fail", "raised"}
                       /\ k + 1 \in Positions(j))
                   => extractCalls[j][k + 1] >= 1

\* C4: an extraction of a job starts only after the job's one download has
\* returned success; the extractions of a job go by increasing position,
\* each after the one before it has returned; at most one is in progress.
C4_SequentialExtraction ==
    \A j \in Jobs :
        /\ \A k \in Positions(j) :
               extractCalls[j][k] > 0 =>
                   /\ dlResult[j] = "ok"
                   /\ acquireCalls[j] = 1
                   /\ \A k2 \in Positions(j) :
                          k2 < k => Returned(exResult[j][k2])
        /\ Cardinality({k \in Positions(j) : exResult[j][k] = "running"}) <= 1
        /\ jobpc[j] = "download" =>
               \A k \in Positions(j) : exResult[j][k] = "none"

\* the second clip of a job is being extracted after its first extraction
\* failed, while another job is in an extraction too
C4_Witness ==
    \E j \in Jobs : \E j2 \in Jobs :
        /\ j2 # j
        /\ Len(download_queue[j].intervals) = 2
        /\ exResult[j][1] = "fail" /\ exResult[j][2] = "running"
        /\ jobpc[j2] = "extract"

\* C5: no retry and no splitting: no call is made twice, and when the run
\* is over download_video has been called exactly once for every job.
C5_ExactlyOnce ==
    /\ \A j \in Jobs :
          /\ acquireCalls[j] <= 1
          /\ \A k \in Positions(j) : extractCalls[j][k] <= 1
          /\ Cardinality({w \in Workers : workerJob[w] = j}) <= 1
    /\ RunOver => \A j \in Jobs : acquireCalls[j] = 1

\* C6: when the run is over it has ended normally and the number of jobs
\* reported completed is the number of jobs.
C6_AllJobsCompleted ==
    RunOver => (mainpc = "finished" /\ completed = Len(download_queue))

\* C7: the job names are distinct, the raw download paths and the clip
\* output paths of all jobs and clips are pairwise distinct, and no file is
\* written for two jobs or by two workers at once.
C7_NoWriteContention ==
    /\ \A j1 \in Jobs : \A j2 \in Jobs :
          /\ j1 # j2 =>
                /\ download_queue[j1].name # download_queue[j2].name
                /\ RawDownloadPath(download_queue[j1])
                       # RawDownloadPath(download_queue[j2])
          /\ \A k2 \in Positions(j2) :
                /\ RawDownloadPath(download_queue[j1])
                       # ClipPath(download_queue[j2], k2 - 1)
                /\ \A k1 \in Positions(j1) :
                      <<j1, k1>> # <<j2, k2>> =>
                          ClipPath(download_queue[j1], k1 - 1)
                              # ClipPath(download_queue[j2], k2 - 1)
    /\ \A x \in writes : \A y \in writes : x[1] = y[1] => x[2] = y[2]

\* two workers are each in the extraction of a clip of their own job
C7_Witness ==
    \E w1 \in Workers : \E w2 \in Workers :
        /\ w1 # w2
        /\ mainpc = "iterating"
        /\ workerJob[w1] # 0 /\ workerJob[w2] # 0
        /\ jobpc[workerJob[w1]] = "extract"
        /\ jobpc[workerJob[w2]] = "extract"
        /\ Cardinality(writes) >= 4

\* the job of the queue made from the video of that name
VideoOfJob(j) ==
    CHOOSE sv \in UNION {{<<s, v>> : v \in VideosOf(s)} : s \in SubsetNames} :
        download_queue[j].name = sv[1] \o "_" \o sv[2]

\* C8: the index in the file name of an extracted clip is the clip's index
\* in the interval file, the i of its crop key {video}_i.mp4.
C8_OriginalClipIndex ==
    \A j \in Jobs : \A k \in Positions(j) :
        extractCalls[j][k] > 0 /\ exResult[j][k] # "raised" =>
            LET sv == VideoOfJob(j)
                i == NthOf(CropIndices(sv[1], sv[2]), k)
            IN  <<PathJoin(output_dir,
                     download_queue[j].name \o "_" \o Format03d(i) \o ".mp4"),
                  j>> \in writes

\* C9: when construct_download_queue returns, a video of a subset has a job
\* iff it has an interval entry, a resolution entry of exactly one field and
\* a crop entry for at least one interval index; there is one job per such
\* video, and it is the job of the stated name, id, resolution and clips.
C9_QueueIsTheJoin ==
    mainpc = "iterating" =>
        /\ \A s \in SubsetNames : \A v \in VideosOf(s) :
               YieldsJob(s, v) <=>
                   \E j \in Jobs : download_queue[j].name = s \o "_" \o v
        /\ \A j \in Jobs :
               \E s \in SubsetNames : \E v \in VideosOf(s) :
                   YieldsJob(s, v) /\ download_queue[j] = ExpectedJob(s, v)
        /\ \A j1 \in Jobs : \A j2 \in Jobs :
               j1 # j2 => download_queue[j1].name # download_queue[j2].name

\* two intervals and a crop entry for index 0 only: one job, one clip
C9_Witness ==
    /\ mainpc = "iterating"
    /\ files = SourceDir(<<Annotated("RD", "a", GoodUrl, TwoIntervals,
                                     OneResolution,
                                     <<"_0.mp4 10 200 0 100">>)>>)
    /\ Len(download_queue) = 1
    /\ download_queue[1].name = "RD_a"
    /\ download_queue[1].id = "k1"
    /\ download_queue[1].resolution = "720"
    /\ download_queue[1].intervals = << <<"00:00", "00:05">> >>
    /\ download_queue[1].crops = << <<10, 200, 0, 100>> >>

\* what makes a video raise in construct_download_queue or give a job
UrlFieldCount(subset, video) == Len(DictGet(UrlMap(subset), video))

Clean(subset, video) ==
    /\ UrlFieldCount(subset, video) = 1
    /\ YieldsJob(subset, video)
    /\ DictHas(parse_qs(UrlQuery(DictGet(UrlMap(subset), video)[1])), "v")
    /\ \A i \in CropIndices(subset, video) :
           LET cs == DictGet(CropMap(subset),
                             video \o "_" \o Str(i) \o ".mp4")
           IN  \A f \in 1..Len(cs) : IntOk(cs[f])

NoIntervalEntry(subset, video) ==
    ~DictHas(IntervalMap(subset), VideoKey(video))

HasJob(subset, video) ==
    \E j \in Jobs : download_queue[j].name = subset \o "_" \o video

\* C11: a video whose key {video}.mp4 is not in the interval mapping has no
\* job; the exclusion raises nothing (an exception at such a video is the
\* one of its URL line), and the other videos get their jobs.
C11_NoIntervalExcluded ==
    /\ \A s \in SubsetNames : \A v \in VideosOf(s) :
          NoIntervalEntry(s, v) =>
              /\ ~HasJob(s, v)
              /\ (joinError.kind = "error" /\ joinError.subset = s
                     /\ joinError.video = v) => joinError.line = 54
    /\ (/\ mainpc # "start"
        /\ \A s \in SubsetNames : \A v \in VideosOf(s) :
              \/ Clean(s, v)
              \/ NoIntervalEntry(s, v) /\ UrlFieldCount(s, v) = 1)
       => /\ mainpc = "iterating"
          /\ \A s \in SubsetNames : \A v \in VideosOf(s) :
                Clean(s, v) => HasJob(s, v)

\* a directory with a video that has a URL, a resolution and crops but no
\* interval line, and a complete video: the queue holds the second alone
C11_Witness ==
    /\ mainpc = "iterating"
    /\ Len(download_queue) = 1
    /\ \E s \in SubsetNames : \E v \in VideosOf(s) :
           /\ NoIntervalEntry(s, v)
           /\ UrlFieldCount(s, v) = 1
           /\ ~BadResolution(s, v)
           /\ DictHas(CropMap(s), v \o "_0.mp4")
    /\ \E s \in SubsetNames : \E v \in VideosOf(s) :
           Clean(s, v) /\ download_queue[1].name = s \o "_" \o v

\* C12: every job of the returned list has at least one clip, and a video
\* none of whose interval indices has a crop entry has no job in the list.
C12_JobsHaveClips ==
    /\ \A j \in Jobs :
          /\ Len(download_queue[j].intervals) >= 1
          /\ Len(download_queue[j].crops) >= 1
    /\ \A s \in SubsetNames : \A v \in VideosOf(s) :
          (NoIntervalEntry(s, v) \/ CropIndices(s, v) = {}) => ~HasJob(s, v)

\* a directory with a video of two intervals, one resolution and no crop
\* entry, and a complete video: the queue holds the second alone
C12_Witness ==
    /\ mainpc = "iterating"
    /\ Len(download_queue) = 1
    /\ Len(download_queue[1].crops) >= 1
    /\ \E s \in SubsetNames : \E v \in VideosOf(s) :
           /\ UrlFieldCount(s, v) = 1
           /\ ~NoIntervalEntry(s, v)
           /\ Len(DictGet(IntervalMap(s), VideoKey(v))) = 2
           /\ ~BadResolution(s, v)
           /\ CropIndices(s, v) = {}
           /\ ~HasJob(s, v)

\* some line of the file of this kind has not n fields after its key
WrongFieldCount(subset, kind, n) ==
    LET lines == files[AnnotationPath(subset, kind)]
    IN  \E i \in 1..Len(lines) : Len(SplitLine(lines[i])) - 1 # n

MalformedStructure ==
    \E s \in SubsetNames :
        \/ WrongFieldCount(s, "video_url", 1)
        \/ WrongFieldCount(s, "crop_wh", 4)

\* C13: when a URL line has not exactly one value field or a crop line has
\* not exactly four, construct_download_queue raises: download_hdtf ends
\* there, with no job list, no download and no extraction.
C13_MalformedIsFatal ==
    (mainpc # "start" /\ MalformedStructure) =>
        /\ mainpc = "fatal"
        /\ Len(download_queue) = 0

ValidCrop(crop) ==
    /\ Len(crop) = 4
    /\ crop[1] >= 0 /\ crop[3] >= 0
    /\ crop[2] > 0 /\ crop[4] > 0

\* C14: every crop of every job of the queue has four integers x, width, y,
\* height with x >= 0, y >= 0, width > 0 and height > 0, and
\* cut_and_crop_video is called with no other crop.
C14_CropsValid ==
    \A j \in Jobs : \A k \in 1..Len(download_queue[j].crops) :
        /\ ValidCrop(download_queue[j].crops[k])
        /\ extractCalls[j][k] > 0 => ValidCrop(download_queue[j].crops[k])

\* C15: every interval of every job of the queue is a sequence of exactly
\* two parts, start and end, and no task raises at the unpacking of line 99.
C15_IntervalsArePairs ==
    \A j \in Jobs :
        /\ \A k \in Positions(j) : Len(download_queue[j].intervals[k]) = 2
        /\ (jobpc[j] = "raised" =>
               \E k \in Positions(j) : exResult[j][k] = "raised")

\* the order in which the subsets are declared
DeclaredOrder == <<"RD", "WDA", "WRA">>

SubsetRank(subset) == CHOOSE i \in 1..Len(DeclaredOrder) : DeclaredOrder[i] = subset

\* the number of the first line of the subset's URL file with this video
UrlLineRank(subset, video) ==
    LET lines == files[AnnotationPath(subset, "video_url")]
        Named(i) == SplitLine(lines[i])[1] = video
    IN  CHOOSE i \in 1..Len(lines) :
            Named(i) /\ \A i2 \in 1..(i - 1) : ~Named(i2)

\* C17: of two jobs of the returned list the earlier one is of a subset
\* declared earlier (RD, WDA, WRA), or of the same subset and of a video
\* that comes earlier in that subset's URL file.
C17_QueueOrder ==
    \A j1 \in Jobs : \A j2 \in Jobs :
        j1 < j2 =>
            LET a == VideoOfJob(j1)
                b == VideoOfJob(j2)
            IN  \/ SubsetRank(a[1]) < SubsetRank(b[1])
                \/ /\ a[1] = b[1]
                   /\ UrlLineRank(a[1], a[2]) < UrlLineRank(b[1], b[2])

\* the URL file of RD lists b before a, and the queue is RD_b, RD_a
C17_Witness ==
    /\ mainpc = "iterating"
    /\ Len(download_queue) = 2
    /\ download_queue[1].name = "RD_b"
    /\ download_queue[2].name = "RD_a"
    /\ UrlLineRank("RD", "b") < UrlLineRank("RD", "a")

\* C18: download_video and cut_and_crop_video end every call by returning
\* a boolean: no call of either one ends with an exception.
C18_BooleanResults ==
    \A j \in Jobs :
        /\ dlResult[j] \in {"none", "running", "ok", "fail"}
        /\ \A k \in Positions(j) :
               exResult[j][k] \in {"none", "running", "ok", "fail"}

InProgress(j) == jobpc[j] \in {"download", "extract"}

\* what the pool keeps about one job
JobData(j) ==
    <<jobpc[j], clipIdx[j], acquireCalls[j], extractCalls[j], dlResult[j],
      exResult[j]>>

\* at most num_workers jobs are in progress, and a job in progress is the
\* job of exactly one worker
C19_OneJobPerWorker ==
    mainpc # "start" =>
        /\ Cardinality({j \in Jobs : InProgress(j)}) <= num_workers
        /\ \A j \in Jobs :
               InProgress(j) =>
                   Cardinality({w \in Workers : workerJob[w] = j}) = 1

\* once built the queue is never changed, and a step changes the data of
\* at most one job
C19_NoSharedMutation ==
    mainpc # "start" =>
        /\ download_queue' = download_queue
        /\ \A j1 \in Jobs : \A j2 \in Jobs :
               (j1 # j2 /\ JobData(j1)' # JobData(j1)) =>
                   JobData(j2)' = JobData(j2)

\* C19: at every point at most worker_count jobs are in progress, each
\* worker has at most one job, the job list is never modified after it was
\* built, and processing one job never changes another job's data.
C19_WorkersIsolated ==
    /\ []C19_OneJobPerWorker
    /\ [][C19_NoSharedMutation]_vars

\* two workers are busy at once, each with its own job
C19_Witness ==
    /\ mainpc = "iterating"
    /\ num_workers = 2
    /\ workerJob[1] # 0 /\ workerJob[2] # 0
    /\ workerJob[1] # workerJob[2]
    /\ InProgress(workerJob[1]) /\ InProgress(workerJob[2])

\* C20: in every job of the queue intervals and crops have the same length
\* and position k of both is of the same clip of the annotation files, the
\* k-th interval index that has a crop; the loop of line 98 is at a
\* position that both lists have.
C20_ClipsAligned ==
    \A j \in Jobs :
        LET video_data == download_queue[j]
            sv == VideoOfJob(j)
            idx == CropIndices(sv[1], sv[2])
            raw == DictGet(IntervalMap(sv[1]), VideoKey(sv[2]))
        IN  /\ Len(video_data.intervals) = Len(video_data.crops)
            /\ Len(video_data.crops) = Cardinality(idx)
            /\ \A k \in 1..Cardinality(idx) :
                  /\ video_data.intervals[k] = Split(raw[NthOf(idx, k) + 1], "-")
                  /\ video_data.crops[k] =
                         ToInts(DictGet(CropMap(sv[1]),
                             sv[2] \o "_" \o Str(NthOf(idx, k)) \o ".mp4"))
            /\ jobpc[j] = "extract" =>
                  /\ clipIdx[j] + 1 \in 1..Len(video_data.intervals)
                  /\ clipIdx[j] + 1 \in 1..Len(video_data.crops)

\* a video of two intervals with a crop for the second only: its job has
\* one clip, of the second interval and the second crop, in extraction
C20_Witness ==
    \E j \in Jobs :
        LET sv == VideoOfJob(j) IN
        /\ Len(DictGet(IntervalMap(sv[1]), VideoKey(sv[2]))) = 2
        /\ CropIndices(sv[1], sv[2]) = {1}
        /\ Len(download_queue[j].intervals) = 1
        /\ jobpc[j] = "extract"
        /\ clipIdx[j] = 0

=============================================================================
